---- MODULE Spec2Model ----
(***************************************************************************)
(* Model of the document viewer (src/components/document-viewer-modal.tsx) *)
(* and of the PDF relay (src/app/api/proxy-pdf/route.js).                  *)
(*                                                                         *)
(* The viewer is a React component: its state is the useState cells and    *)
(* the useRef cells, plus the part of the DOM the handlers read back (the  *)
(* container and page sizes, the transform written to the viewer element,  *)
(* the listeners the effects registered).  One action is one event         *)
(* handler together with the effects its state changes trigger.            *)
(*                                                                         *)
(* JavaScript numbers are modelled as exact rationals [n, d] in lowest     *)
(* terms with d > 0; a division by zero yields NaN ([n |-> 0, d |-> 0]),   *)
(* which every operation propagates.                                       *)
(***************************************************************************)
EXTENDS Integers, Sequences, FiniteSets, TLC

(***************************************************************************)
(* Bounds of the model (not program constants).                            *)
(***************************************************************************)
\* Largest page count the rendering capability reports.
MaxPages == 2
\* Zoom gestures and drags (wheel zooms, button zooms, primary-button presses)
\* explored in one behaviour.
MaxGestures == 1
\* Requests the relay serves in one behaviour.
MaxRequests == 2

(***************************************************************************)
(* Program constants.                                                      *)
(***************************************************************************)
BASE_SCALE == 1
PADDING == 20
MAX_SCALE == 5

(***************************************************************************)
(* Rational arithmetic standing for JavaScript number arithmetic.          *)
(***************************************************************************)
Abs(i) == IF i < 0 THEN -i ELSE i

RECURSIVE GCD(_, _)
GCD(a, b) == IF b = 0 THEN a ELSE GCD(b, a % b)

NaN == [n |-> 0, d |-> 0]

IsNaN(a) == a.d = 0

Norm(n, d) ==
    IF d = 0 THEN NaN
    ELSE LET g == GCD(Abs(n), Abs(d))
             s == IF d < 0 THEN -1 ELSE 1
         IN  [n |-> (s * n) \div g, d |-> (s * d) \div g]

Num(i) == [n |-> i, d |-> 1]

Frac(n, d) == Norm(n, d)

RNeg(a) == IF IsNaN(a) THEN NaN ELSE [n |-> -a.n, d |-> a.d]

RAbs(a) == IF IsNaN(a) THEN NaN ELSE [n |-> Abs(a.n), d |-> a.d]

RAdd(a, b) ==
    IF IsNaN(a) \/ IsNaN(b) THEN NaN
    ELSE LET g == GCD(a.d, b.d)
         IN  Norm(a.n * (b.d \div g) + b.n * (a.d \div g), (a.d \div g) * b.d)

RSub(a, b) == RAdd(a, RNeg(b))

RMul(a, b) ==
    IF IsNaN(a) \/ IsNaN(b) THEN NaN
    ELSE IF a.n = 0 \/ b.n = 0 THEN Num(0)
    ELSE LET g1 == GCD(Abs(a.n), b.d)
             g2 == GCD(Abs(b.n), a.d)
         IN  [n |-> (a.n \div g1) * (b.n \div g2),
              d |-> (a.d \div g2) * (b.d \div g1)]

\* x / 0 is +-Infinity or NaN in JavaScript.  The only zero divisor the
\* handlers can meet is scale = 0, and there the quotient is either
\* multiplied by a new scale that is 0 again (Infinity * 0 = NaN) or
\* subtracted from a quotient by that same 0 (Infinity - Infinity = NaN), so
\* the quotient is modelled as NaN directly.
RDiv(a, b) ==
    IF IsNaN(a) \/ IsNaN(b) \/ b.n = 0 THEN NaN
    ELSE RMul(a, IF b.n < 0 THEN [n |-> -b.d, d |-> -b.n]
                             ELSE [n |-> b.d, d |-> b.n])

\* <, <=, >= of JavaScript: false as soon as an operand is NaN.
RLess(a, b) == ~IsNaN(a) /\ ~IsNaN(b) /\ a.n * b.d < b.n * a.d

RLeq(a, b) == ~IsNaN(a) /\ ~IsNaN(b) /\ a.n * b.d <= b.n * a.d

\* Math.min / Math.max: NaN as soon as an operand is NaN.
RMin(a, b) == IF IsNaN(a) \/ IsNaN(b) THEN NaN ELSE IF RLess(b, a) THEN b ELSE a

RMax(a, b) == IF IsNaN(a) \/ IsNaN(b) THEN NaN ELSE IF RLess(a, b) THEN b ELSE a

MIN_SCALE_FACTOR == Frac(1, 2)

zoomFactor == Frac(11, 10)

Origin == [x |-> Num(0), y |-> Num(0)]

(***************************************************************************)
(* The environment: what the host layout, the pointer and the rendering    *)
(* capability can supply.                                                  *)
(***************************************************************************)
\* clientWidth x clientHeight of the container.  With a 100 x 100 page they
\* give the fit scales 6, -1/10 and 0, with a 200 x 100 page 3, -1/10 and 0.
ContainerSizes ==
    { [w |-> 640, h |-> 640], [w |-> 30, h |-> 30], [w |-> 40, h |-> 140] }

\* scrollWidth x scrollHeight of a rendered page at BASE_SCALE.
PageSizes == { [w |-> 100 * BASE_SCALE, h |-> 100 * BASE_SCALE],
               [w |-> 200 * BASE_SCALE, h |-> 100 * BASE_SCALE] }

NoSize == [w |-> 0, h |-> 0]

\* getBoundingClientRect().left / .top of the container.
ContainerRect == [left |-> 10, top |-> 60]

\* clientX, clientY of pointer events.
Points == { [x |-> 110, y |-> 110], [x |-> 210, y |-> 160] }

NoPoint == [x |-> 0, y |-> 0]

\* e.button
Buttons == {0, 2}

\* e.deltaY
DeltaYs == {-100, 0, 100}

NULL == "null"

LoadErrorMessage == "Failed to load document: error"

\* searchParams.get("url"): null when the parameter is absent.
Urls == {NULL, "", "not a url", "https://host/a.pdf", "https://host/b"}

\* response.status of the upstream (redirects are followed by fetch).
Statuses == {200, 204, 304, 404, 500}

\* response.headers.get("content-type"): null when the header is absent.
ContentTypes == {NULL, "application/pdf", "application/pdf; charset=binary",
                 "text/html"}

\* What await fetch(url) yields: it throws, or it resolves to a response.
FetchOutcomes ==
    {[threw |-> TRUE, status |-> 0, contentType |-> NULL]}
    \cup [threw : {FALSE}, status : Statuses, contentType : ContentTypes]

NoUpstream == [threw |-> FALSE, status |-> 0, contentType |-> NULL]

VARIABLES
    isOpen,          \* prop isOpen
    mounted,         \* the dialog content (container, toolbar) is in the DOM
    numPages, pageNumber, scale, fitScale, error, isLoading,
    isPanning, isFocused,
    startPanRef, panOffsetRef, lastTransformRef,
    container,       \* containerRef.current.clientWidth / clientHeight
    pageSize,        \* pageRef.current.scrollWidth / scrollHeight
    transformScale,  \* scale(...) of viewerRef.current.style.transform
    pdfLoaded,       \* <Document> holds a loaded document, so <Page> is rendered
    wheelAttached,   \* a wheel listener is registered on the current container
    wheelFitScale,   \* fitScale captured by the registered handleWheel closure
    observing,       \* a ResizeObserver observes the current container
    gestures,        \* zooms and drags handled so far
    relayPc,         \* where the relay's GET handler stands: idle, fetching, reading
    relayUrl,        \* const url = searchParams.get("url")
    upstream,        \* const response = await fetch(url, ...)
    warnings,        \* console.warn calls of the request in flight
    served,          \* the requests answered so far, each with its response
    requests         \* requests received so far

viewerVars ==
    <<isOpen, mounted, numPages, pageNumber, scale, fitScale, error, isLoading,
      isPanning, isFocused, startPanRef, panOffsetRef, lastTransformRef,
      container, pageSize, transformScale, pdfLoaded, wheelAttached,
      wheelFitScale, observing, gestures>>

relayVars == <<relayPc, relayUrl, upstream, warnings, served, requests>>

vars == <<viewerVars, relayVars>>


(***************************************************************************)
(* Initial state: the component is constructed with isOpen = false (the    *)
(* page shell), the reset effect has run, nothing is in the DOM.           *)
(***************************************************************************)
ViewerInit ==
    /\ isOpen = FALSE
    /\ mounted = FALSE
    /\ numPages = 0
    /\ pageNumber = 1
    /\ scale = Num(1)
    /\ fitScale = Num(1)
    /\ error = NULL
    /\ isLoading = TRUE
    /\ isPanning = FALSE
    /\ isFocused = FALSE
    /\ startPanRef = NoPoint
    /\ panOffsetRef = Origin
    /\ lastTransformRef = Origin
    /\ container = NoSize
    /\ pageSize = NoSize
    /\ transformScale = Num(1)
    /\ pdfLoaded = FALSE
    /\ wheelAttached = FALSE
    /\ wheelFitScale = Num(1)
    /\ observing = FALSE
    /\ gestures = 0

RelayInit ==
    /\ relayPc = "idle"
    /\ relayUrl = NULL
    /\ upstream = NoUpstream
    /\ warnings = 0
    /\ served = <<>>
    /\ requests = 0

Init == ViewerInit /\ RelayInit

(***************************************************************************)
(* What is rendered.                                                       *)
(***************************************************************************)
\* {error ? <div>error</div> : <> ... <Document> ... </>}: the viewer element,
\* the page element and <Document> exist only while error is null.
DocumentMounted_WithError == mounted

DocumentMounted == mounted /\ error = NULL

\* Elements that stay in the DOM when the error branch is rendered.
RefsPresent_WithError == mounted

\* viewerRef.current && containerRef.current && pageRef.current
RefsPresent == mounted /\ error = NULL

\* LoadState of the specification, as the render branches distinguish it.
LoadState ==
    IF error # NULL THEN "error" ELSE IF isLoading THEN "loading" ELSE "ready"

(***************************************************************************)
(* calculateFitScale                                                       *)
(***************************************************************************)
FitScaleOf_Max(c, p) ==
    LET scaleWidth  == RDiv(Num(c.w - PADDING * 2), Num(p.w))
        scaleHeight == RDiv(Num(c.h - PADDING * 2), Num(p.h))
    IN  RMax(scaleWidth, scaleHeight)

\* A fit measured on the page's bounding box, which the current transform
\* scales, instead of its layout size (clientWidth, clientHeight).
FitScaleOf_BoundingBox(c, p) ==
    LET scaleWidth  == RDiv(Num(c.w - PADDING * 2), RMul(Num(p.w), RAbs(scale)))
        scaleHeight == RDiv(Num(c.h - PADDING * 2), RMul(Num(p.h), RAbs(scale)))
    IN  RMin(scaleWidth, scaleHeight)

FitScaleOf(c, p) ==
    LET scaleWidth  == RDiv(Num(c.w - PADDING * 2), Num(p.w))
        scaleHeight == RDiv(Num(c.h - PADDING * 2), Num(p.h))
    IN  RMin(scaleWidth, scaleHeight)

CenteredOffset(c, p, f) ==
    LET scaledWidth  == RMul(Num(p.w), f)
        scaledHeight == RMul(Num(p.h), f)
    IN  [x |-> RDiv(RSub(Num(c.w), scaledWidth), Num(2)),
         y |-> RDiv(RSub(Num(c.h), scaledHeight), Num(2))]

\* A fit that only records the new fit scale and keeps the user's view.
CalculateFitScale_KeepView(c, p) ==
    /\ fitScale' = FitScaleOf(c, p)
    /\ UNCHANGED <<scale, panOffsetRef, lastTransformRef, transformScale>>

\* The body of calculateFitScale once its guard has passed.
CalculateFitScale(c, p) ==
    LET newFitScale == FitScaleOf(c, p)
        offset == CenteredOffset(c, p, newFitScale)
    IN  /\ fitScale' = newFitScale
        /\ scale' = newFitScale
        /\ panOffsetRef' = offset
        /\ lastTransformRef' = offset
        /\ transformScale' = newFitScale

(***************************************************************************)
(* Effects that re-run when their dependencies change.                     *)
(***************************************************************************)
\* useEffect(..., [isFocused, scale]): registers handleWheel of the current
\* render on the container, if there is one.
WheelEffect ==
    IF scale' # scale \/ isFocused' # isFocused
    THEN /\ wheelAttached' = mounted'
         /\ wheelFitScale' = IF mounted' THEN fitScale' ELSE Num(1)
    ELSE UNCHANGED <<wheelAttached, wheelFitScale>>

\* An effect that runs after every render, not only when isLoading changed.
IsLoadingChanges_EveryRender(next) == TRUE

\* The dependency array [isLoading] of the fit effect: the effect runs after
\* a render in which isLoading got another value.
IsLoadingChanges(next) == isLoading # next

\* useEffect(..., [isLoading]): observes the container, if there is one.
ObserverEffect ==
    IF isLoading' # isLoading THEN observing' = mounted' ELSE UNCHANGED observing

(***************************************************************************)
(* Opening and closing.                                                    *)
(***************************************************************************)
\* The page shell sets isOpen; the dialog renders its content, and with it a
\* new container element.  The viewer is reopened after the content of the
\* previous session has left the DOM.
Open ==
    /\ ~isOpen
    /\ ~mounted
    /\ isOpen' = TRUE
    /\ mounted' = TRUE
    /\ \E c \in ContainerSizes : container' = c
    /\ UNCHANGED <<numPages, pageNumber, scale, fitScale, error, isLoading,
                   isPanning, isFocused, startPanRef, panOffsetRef,
                   lastTransformRef, pageSize, transformScale, pdfLoaded,
                   wheelAttached, wheelFitScale, observing, gestures>>
    /\ UNCHANGED relayVars

\* onClose of the page shell, then the reset effect of the component.
Close ==
    /\ isOpen
    /\ isOpen' = FALSE
    /\ numPages' = 0
    /\ pageNumber' = 1
    /\ scale' = Num(1)
    /\ fitScale' = Num(1)
    /\ error' = NULL
    /\ isLoading' = TRUE
    /\ panOffsetRef' = Origin
    /\ lastTransformRef' = Origin
    /\ UNCHANGED <<mounted, isPanning, isFocused, startPanRef, container,
                   pageSize, transformScale, pdfLoaded, gestures>>
    /\ WheelEffect
    /\ ObserverEffect
    /\ UNCHANGED relayVars

\* The dialog takes its content out of the DOM some time after it was closed;
\* <Document> is unmounted with it and its pending load is dropped.
Unmount ==
    /\ ~isOpen
    /\ mounted
    /\ mounted' = FALSE
    /\ container' = NoSize
    /\ pageSize' = NoSize
    /\ transformScale' = Num(1)
    /\ pdfLoaded' = FALSE
    /\ wheelAttached' = FALSE
    /\ wheelFitScale' = Num(1)
    /\ observing' = FALSE
    /\ UNCHANGED <<isOpen, numPages, pageNumber, scale, fitScale, error,
                   isLoading, isPanning, isFocused, startPanRef, panOffsetRef,
                   lastTransformRef, gestures>>
    /\ UNCHANGED relayVars

(***************************************************************************)
(* Callbacks of the rendering capability.                                  *)
(***************************************************************************)
\* <Document onLoadSuccess>: a load or a reload of the file completed.
DocumentLoadSuccess ==
    /\ DocumentMounted
    /\ \E n \in 1..MaxPages :
          /\ n # numPages \/ ~pdfLoaded
          /\ numPages' = n
    /\ error' = NULL
    /\ pdfLoaded' = TRUE
    /\ UNCHANGED <<isOpen, mounted, pageNumber, scale, fitScale, isLoading,
                   isPanning, isFocused, startPanRef, panOffsetRef,
                   lastTransformRef, container, pageSize, transformScale,
                   wheelAttached, wheelFitScale, observing, gestures>>
    /\ UNCHANGED relayVars

\* <Document onLoadError>: the error branch is rendered from now on, which
\* takes the viewer and page elements and <Document> out of the DOM.
DocumentLoadError ==
    /\ DocumentMounted
    /\ error' = LoadErrorMessage
    /\ isLoading' = FALSE
    /\ pdfLoaded' = FALSE
    /\ pageSize' = NoSize
    /\ transformScale' = Num(1)
    /\ UNCHANGED <<isOpen, mounted, numPages, pageNumber, scale, fitScale,
                   isPanning, isFocused, startPanRef, panOffsetRef,
                   lastTransformRef, container, gestures>>
    /\ WheelEffect
    /\ ObserverEffect
    /\ UNCHANGED relayVars

\* <Page onLoadSuccess>: setIsLoading(false); when that changes isLoading the
\* fit effect runs calculateFitScale and the observer effect re-subscribes.
PageLoadSuccess ==
    /\ DocumentMounted
    /\ pdfLoaded
    /\ \E p \in PageSizes :
          /\ isLoading \/ p # pageSize
          /\ pageSize' = p
          /\ IF IsLoadingChanges(FALSE)
             THEN CalculateFitScale(container, p)
             ELSE UNCHANGED <<fitScale, scale, panOffsetRef, lastTransformRef,
                              transformScale>>
    /\ isLoading' = FALSE
    /\ UNCHANGED <<isOpen, mounted, numPages, pageNumber, error, isPanning,
                   isFocused, startPanRef, container, pdfLoaded, gestures>>
    /\ WheelEffect
    /\ ObserverEffect
    /\ UNCHANGED relayVars

\* A callback that refits also while the first page is still rendering.
ObserverFits_WhileLoading == observing /\ RefsPresent

\* The ResizeObserver of the last observer effect exists, and the guard of
\* calculateFitScale passes: the three elements exist and !isLoading.
ObserverFits == observing /\ ~isLoading /\ RefsPresent

\* The ResizeObserver callback for a container of size c: calculateFitScale
\* of the current render.
ResizeCallback(c) ==
    /\ mounted
    /\ container' = c
    /\ IF ObserverFits
       THEN CalculateFitScale(c, pageSize)
       ELSE UNCHANGED <<fitScale, scale, panOffsetRef, lastTransformRef,
                        transformScale>>
    /\ UNCHANGED <<isOpen, mounted, numPages, pageNumber, error, isLoading,
                   isPanning, isFocused, startPanRef, pageSize, pdfLoaded,
                   observing, gestures>>
    /\ WheelEffect
    /\ UNCHANGED relayVars

\* The container, which is in the DOM until the dialog content is unmounted,
\* changes size.
Resize == \E c \in ContainerSizes \ {container} : ResizeCallback(c)

(***************************************************************************)
(* updateTransform(newScale, zoomOrigin) with zoomOrigin the centre of the *)
(* container: the pan offset it leaves in panOffsetRef.  The bounding rect *)
(* of the viewer element (absolute inset-0) is the container box scaled by *)
(* the transform currently written to it.                                  *)
(***************************************************************************)
CenterAnchoredOffset(newScale) ==
    LET viewerWidth  == RMul(Num(container.w), RAbs(transformScale))
        viewerHeight == RMul(Num(container.h), RAbs(transformScale))
        relativeX == RDiv(RDiv(Num(container.w), Num(2)), Num(container.w))
        relativeY == RDiv(RDiv(Num(container.h), Num(2)), Num(container.h))
        oldWidth  == RDiv(viewerWidth, scale)
        newWidth  == RDiv(viewerWidth, newScale)
        oldHeight == RDiv(viewerHeight, scale)
        newHeight == RDiv(viewerHeight, newScale)
    IN  [x |-> RAdd(panOffsetRef.x, RMul(RSub(newWidth, oldWidth), relativeX)),
         y |-> RAdd(panOffsetRef.y, RMul(RSub(newHeight, oldHeight), relativeY))]

\* The body of updateTransform: nothing happens without the three elements.
UpdateTransform(newScale, anchored) ==
    IF RefsPresent
    THEN /\ panOffsetRef' = IF anchored THEN CenterAnchoredOffset(newScale)
                                        ELSE panOffsetRef
         /\ transformScale' = newScale
    ELSE UNCHANGED <<panOffsetRef, transformScale>>

(***************************************************************************)
(* Wheel zoom.                                                             *)
(***************************************************************************)
\* newScale of handleWheel; fit is the fitScale its closure captured.
WheelScale(deltaY, s, fit) ==
    IF -deltaY > 0
    THEN RMin(Num(5), RMul(s, zoomFactor))
    ELSE RMax(RMul(fit, Frac(1, 2)), RDiv(s, zoomFactor))

\* panOffsetRef.current of handleWheel for the cursor at client point p.
WheelOffset(p, newScale) ==
    LET mouseX == Num(p.x - ContainerRect.left)
        mouseY == Num(p.y - ContainerRect.top)
        pointXBeforeZoom == RDiv(RSub(mouseX, panOffsetRef.x), scale)
        pointYBeforeZoom == RDiv(RSub(mouseY, panOffsetRef.y), scale)
        pointXAfterZoom == RMul(pointXBeforeZoom, newScale)
        pointYAfterZoom == RMul(pointYBeforeZoom, newScale)
    IN  [x |-> RSub(mouseX, pointXAfterZoom),
         y |-> RSub(mouseY, pointYAfterZoom)]

\* A gate that does not look at the modifier keys.
WheelGate_NoModifier(modifier) == wheelAttached /\ isFocused /\ RefsPresent

\* (e.ctrlKey || e.metaKey) && isFocused, container && viewer, for the
\* handler the wheel effect registered.
WheelGate(modifier) == wheelAttached /\ modifier /\ isFocused /\ RefsPresent

\* handleWheel for one wheel event at client point p.
WheelAt(p, modifier, deltaY) ==
    /\ isOpen
    /\ IF WheelGate(modifier)
       THEN LET newScale == WheelScale(deltaY, scale, wheelFitScale)
            IN  /\ gestures < MaxGestures
                /\ panOffsetRef' = WheelOffset(p, newScale)
                /\ scale' = newScale
                /\ transformScale' = newScale
                /\ gestures' = gestures + 1
       ELSE UNCHANGED <<panOffsetRef, scale, transformScale, gestures>>
    /\ UNCHANGED <<isOpen, mounted, numPages, pageNumber, fitScale, error,
                   isLoading, isPanning, isFocused, startPanRef,
                   lastTransformRef, container, pageSize, pdfLoaded, observing>>
    /\ WheelEffect
    /\ UNCHANGED relayVars

Wheel ==
    \E p \in Points, modifier \in BOOLEAN, deltaY \in DeltaYs :
        WheelAt(p, modifier, deltaY)

(***************************************************************************)
(* Toolbar buttons.  A disabled button dispatches no click, so the zoom     *)
(* handlers run only while their button is enabled.                        *)
(***************************************************************************)
ZoomInDisabled == RLeq(Num(MAX_SCALE), scale)

ZoomOutDisabled == RLeq(scale, RMul(fitScale, MIN_SCALE_FACTOR))

ZoomInScale(s) == RMin(Num(5), RMul(s, Frac(11, 10)))

ZoomOutScale(s, fit) == RMax(RMul(fit, Frac(1, 2)), RDiv(s, Frac(11, 10)))

ButtonZoom(disabled, newScale) ==
    /\ isOpen
    /\ ~disabled
    /\ gestures < MaxGestures
    /\ scale' = newScale
    /\ UpdateTransform(newScale, TRUE)
    /\ gestures' = gestures + 1
    /\ UNCHANGED <<isOpen, mounted, numPages, pageNumber, fitScale, error,
                   isLoading, isPanning, isFocused, startPanRef,
                   lastTransformRef, container, pageSize, pdfLoaded, observing>>
    /\ WheelEffect
    /\ UNCHANGED relayVars

ZoomIn == ButtonZoom(ZoomInDisabled, ZoomInScale(scale))

ZoomOut == ButtonZoom(ZoomOutDisabled, ZoomOutScale(scale, fitScale))

\* handleResetView
ResetScale_Step(s, fit) == RDiv(s, Frac(11, 10))

ResetScale(s, fit) == fit

\* A reset that centres the content as a fit does.
ResetOffset_Centered(c, p, fit) == CenteredOffset(c, p, fit)

\* panOffsetRef.current = { x: 0, y: 0 }
ResetOffset(c, p, fit) == Origin

ResetView ==
    /\ isOpen
    /\ scale' = ResetScale(scale, fitScale)
    /\ panOffsetRef' = ResetOffset(container, pageSize, fitScale)
    /\ lastTransformRef' = ResetOffset(container, pageSize, fitScale)
    /\ transformScale' = IF RefsPresent THEN ResetScale(scale, fitScale)
                                        ELSE transformScale
    /\ UNCHANGED <<isOpen, mounted, numPages, pageNumber, fitScale, error,
                   isLoading, isPanning, isFocused, startPanRef, container,
                   pageSize, pdfLoaded, observing, gestures>>
    /\ WheelEffect
    /\ UNCHANGED relayVars

PreviousPageOf(prev) == IF prev - 1 > 1 THEN prev - 1 ELSE 1

NextPageOf(prev, total) == IF prev + 1 < total THEN prev + 1 ELSE total

PreviousDisabled == pageNumber <= 1

NextDisabled_Never == FALSE

NextDisabled == pageNumber >= numPages

\* A disabled button dispatches no click: the page stays as it is.
PreviousPage ==
    /\ isOpen
    /\ pageNumber' = IF PreviousDisabled THEN pageNumber
                                          ELSE PreviousPageOf(pageNumber)
    /\ UNCHANGED <<isOpen, mounted, numPages, scale, fitScale, error, isLoading,
                   isPanning, isFocused, startPanRef, panOffsetRef,
                   lastTransformRef, container, pageSize, transformScale,
                   pdfLoaded, wheelAttached, wheelFitScale, observing,
                   gestures>>
    /\ UNCHANGED relayVars

NextPage ==
    /\ isOpen
    /\ pageNumber' = IF NextDisabled THEN pageNumber
                                     ELSE NextPageOf(pageNumber, numPages)
    /\ UNCHANGED <<isOpen, mounted, numPages, scale, fitScale, error, isLoading,
                   isPanning, isFocused, startPanRef, panOffsetRef,
                   lastTransformRef, container, pageSize, transformScale,
                   pdfLoaded, wheelAttached, wheelFitScale, observing,
                   gestures>>
    /\ UNCHANGED relayVars

(***************************************************************************)
(* Pointer events on the container.                                        *)
(***************************************************************************)
MouseDown ==
    /\ isOpen
    /\ \E p \in Points, button \in Buttons :
          IF button = 0
          THEN /\ gestures < MaxGestures
               /\ isPanning' = TRUE
               /\ startPanRef' = p
               /\ lastTransformRef' = panOffsetRef
               /\ gestures' = gestures + 1
          ELSE UNCHANGED <<isPanning, startPanRef, lastTransformRef, gestures>>
    /\ UNCHANGED <<isOpen, mounted, numPages, pageNumber, scale, fitScale,
                   error, isLoading, isFocused, panOffsetRef, container,
                   pageSize, transformScale, pdfLoaded, wheelAttached,
                   wheelFitScale, observing>>
    /\ UNCHANGED relayVars

\* panOffsetRef.current of handleMouseMove while panning.
DragOffset(p) ==
    [x |-> RAdd(lastTransformRef.x, Num(p.x - startPanRef.x)),
     y |-> RAdd(lastTransformRef.y, Num(p.y - startPanRef.y))]

MouseMove ==
    /\ isOpen
    /\ \E p \in Points :
          IF isPanning
          THEN /\ panOffsetRef' = DragOffset(p)
               /\ transformScale' = IF RefsPresent THEN scale ELSE transformScale
          ELSE UNCHANGED <<panOffsetRef, transformScale>>
    /\ UNCHANGED <<isOpen, mounted, numPages, pageNumber, scale, fitScale,
                   error, isLoading, isPanning, isFocused, startPanRef,
                   lastTransformRef, container, pageSize, pdfLoaded,
                   wheelAttached, wheelFitScale, observing, gestures>>
    /\ UNCHANGED relayVars

\* handleMouseUp; setIsPanning(false) changes nothing unless panning.
MouseUp ==
    /\ isOpen
    /\ isPanning
    /\ isPanning' = FALSE
    /\ UNCHANGED <<isOpen, mounted, numPages, pageNumber, scale, fitScale,
                   error, isLoading, isFocused, startPanRef, panOffsetRef,
                   lastTransformRef, container, pageSize, transformScale,
                   pdfLoaded, wheelAttached, wheelFitScale, observing,
                   gestures>>
    /\ UNCHANGED relayVars

\* onMouseEnter={() => setIsFocused(true)}; it changes nothing when the
\* flag is already set.
MouseEnter ==
    /\ isOpen
    /\ ~isFocused
    /\ isFocused' = TRUE
    /\ UNCHANGED <<isOpen, mounted, numPages, pageNumber, scale, fitScale,
                   error, isLoading, isPanning, startPanRef, panOffsetRef,
                   lastTransformRef, container, pageSize, transformScale,
                   pdfLoaded, observing, gestures>>
    /\ WheelEffect
    /\ UNCHANGED relayVars

\* The container element carries onMouseLeave twice; JSX keeps the last one,
\* () => setIsFocused(false), so handleMouseUp is not run on leave.
MouseLeave ==
    /\ isOpen
    /\ isFocused
    /\ isFocused' = FALSE
    /\ UNCHANGED <<isOpen, mounted, numPages, pageNumber, scale, fitScale,
                   error, isLoading, isPanning, startPanRef, panOffsetRef,
                   lastTransformRef, container, pageSize, transformScale,
                   pdfLoaded, observing, gestures>>
    /\ WheelEffect
    /\ UNCHANGED relayVars

(***************************************************************************)
(* The relay: GET of src/app/api/proxy-pdf/route.js.  The handler is       *)
(* suspended at its two awaits, so it is three steps: up to the fetch, from *)
(* the fetch to the body read, and from the body read to the response.     *)
(***************************************************************************)
\* if (!url): null and the empty string are falsy.
UrlMissing(u) == u = NULL \/ u = ""

\* fetch rejects a string that is not an absolute URL before any request.
UrlParses(u) == u \in {"https://host/a.pdf", "https://host/b"}

\* response.ok
ResponseOk_AnyStatus(status) == TRUE

ResponseOk(status) == status >= 200 /\ status <= 299

\* !contentType || !contentType.includes("application/pdf")
NotPdf(ct) ==
    ct = NULL \/ ct \notin {"application/pdf", "application/pdf; charset=binary"}

MissingUrlResponse ==
    [status |-> 400, contentType |-> "text/plain;charset=UTF-8",
     body |-> "Missing URL parameter"]

FailedResponse ==
    [status |-> 500, contentType |-> "application/json",
     body |-> "{\"error\":\"Failed to fetch PDF\"}"]

PdfResponse ==
    [status |-> 200, contentType |-> "application/pdf", body |-> "pdfBuffer"]

\* The handler returns r: the request is answered and its locals are gone.
RelayReturn(request, u, fetched, o, bodyRead, warned, r) ==
    /\ served' = Append(served, [request |-> request, url |-> u,
                                 fetched |-> fetched, upstream |-> o,
                                 bodyRead |-> bodyRead, warnings |-> warned,
                                 response |-> r])
    /\ relayPc' = "idle"
    /\ relayUrl' = NULL
    /\ upstream' = NoUpstream

\* Lines 3-12: read the parameter, answer 400 without it, else start the fetch.
RelayReceive ==
    /\ relayPc = "idle"
    /\ requests < MaxRequests
    /\ requests' = requests + 1
    /\ warnings' = 0
    /\ \E u \in Urls :
          IF UrlMissing(u)
          THEN RelayReturn(requests + 1, u, FALSE, NoUpstream, "none", 0,
                           MissingUrlResponse)
          ELSE /\ relayPc' = "fetching"
               /\ relayUrl' = u
               /\ UNCHANGED <<upstream, served>>
    /\ UNCHANGED viewerVars

\* Lines 12-27: the fetch settles; a rejection and a status that is not ok
\* both land in the catch block.
RelayFetched ==
    /\ relayPc = "fetching"
    /\ \E o \in FetchOutcomes :
          /\ ~UrlParses(relayUrl) => o.threw
          /\ IF o.threw \/ ~ResponseOk(o.status)
             THEN /\ UNCHANGED warnings
                  /\ RelayReturn(requests, relayUrl, TRUE, o, "none", warnings,
                                 FailedResponse)
             ELSE /\ warnings' = IF NotPdf(o.contentType) THEN 1 ELSE 0
                  /\ upstream' = o
                  /\ relayPc' = "reading"
                  /\ UNCHANGED <<relayUrl, served>>
    /\ UNCHANGED requests
    /\ UNCHANGED viewerVars

\* Lines 27-44: arrayBuffer() settles; a rejection lands in the catch block.
RelayBodyRead ==
    /\ relayPc = "reading"
    /\ \E ok \in BOOLEAN :
          RelayReturn(requests, relayUrl, TRUE, upstream,
                      IF ok THEN "read" ELSE "failed", warnings,
                      IF ok THEN PdfResponse ELSE FailedResponse)
    /\ UNCHANGED <<warnings, requests>>
    /\ UNCHANGED viewerVars

RelayNext ==
    \/ RelayReceive
    \/ RelayFetched
    \/ RelayBodyRead

RelaySpec == Init /\ [][RelayNext]_vars

Next ==
    \/ Open
    \/ Close
    \/ Unmount
    \/ DocumentLoadSuccess
    \/ DocumentLoadError
    \/ PageLoadSuccess
    \/ Resize
    \/ Wheel
    \/ ZoomIn
    \/ ZoomOut
    \/ ResetView
    \/ PreviousPage
    \/ NextPage
    \/ MouseDown
    \/ MouseMove
    \/ MouseUp
    \/ MouseEnter
    \/ MouseLeave

Spec == Init /\ [][Next]_vars

(***************************************************************************)
(* Properties.                                                             *)
(***************************************************************************)
\* A step that is a zoom operation: a button zoom, or a wheel event that
\* passed the gate of handleWheel.
ZoomStep ==
    \/ ZoomIn
    \/ ZoomOut
    \/ \E p \in Points, deltaY \in DeltaYs :
          WheelGate(TRUE) /\ WheelAt(p, TRUE, deltaY)

\* A step in which calculateFitScale ran past its guard.
FitStep ==
    \/ isLoading /\ PageLoadSuccess
    \/ ObserverFits /\ Resize

\* C1: right after every zoom operation (wheel or button), whatever fit,
\* reset and pan came before, fitScale * 0.5 <= scale <= 5.0.  It is stated
\* for the positive fit scales, which is all it takes to refute it.
C1_ZoomClamped ==
    [][(ZoomStep /\ RLess(Num(0), fitScale)) =>
          /\ RLeq(RMul(fitScale', Frac(1, 2)), scale')
          /\ RLeq(scale', Num(5))]_vars

\* C2: when the viewer is opened, also after it was closed from any state,
\* scale = fitScale = 1.0, panOffset = {0,0} and page = 1.
C2_ReopenedIsReset ==
    [][Open => /\ scale' = Num(1)
               /\ fitScale' = Num(1)
               /\ panOffsetRef' = Origin
               /\ pageNumber' = 1]_vars

\* C3: previous at page 1, next at the last page, and both of them when the
\* total is 0, leave the current page unchanged.
C3_NavigationBoundary ==
    [][/\ (PreviousPage /\ pageNumber = 1) => pageNumber' = pageNumber
       /\ (NextPage /\ pageNumber = numPages) => pageNumber' = pageNumber
       /\ ((PreviousPage \/ NextPage) /\ numPages = 0)
             => pageNumber' = pageNumber]_vars

\* Next was pressed up to the last page of a two-page document, where it is
\* pressed again.
C3_Witness ==
    /\ isOpen
    /\ numPages = 2
    /\ pageNumber = 2
    /\ ENABLED NextPage

\* C4: in every reachable state current >= 1 and, whenever total >= 1,
\* current <= total.
C4_PageCursorInvariant ==
    /\ pageNumber >= 1
    /\ numPages >= 1 => pageNumber <= numPages

\* The pixel of the container under the cursor at client point p.
CursorPixel(p) ==
    [x |-> Num(p.x - ContainerRect.left), y |-> Num(p.y - ContainerRect.top)]

\* C5: for every wheel zoom with the cursor at p, the world point
\* (cursorPixel - panOffset) / oldScale maps back to the cursor pixel:
\* newPanOffset + point * newScale = cursorPixel.
C5_CursorAnchoredZoom ==
    [][\A p \in Points, deltaY \in DeltaYs :
          (WheelGate(TRUE) /\ WheelAt(p, TRUE, deltaY)) =>
             LET cursor == CursorPixel(p)
                 pointX == RDiv(RSub(cursor.x, panOffsetRef.x), scale)
                 pointY == RDiv(RSub(cursor.y, panOffsetRef.y), scale)
             IN  /\ RAdd(panOffsetRef'.x, RMul(pointX, scale')) = cursor.x
                 /\ RAdd(panOffsetRef'.y, RMul(pointY, scale')) = cursor.y]_vars

\* C6: after a fit computed from non-negative candidates, the content scaled
\* by fitScale fits the container less the padding in both dimensions, fills
\* it exactly in at least one, and the pan offset centres the scaled content.
C6_FitCalculation ==
    [][(/\ FitStep
        /\ container'.w >= 2 * 20
        /\ container'.h >= 2 * 20) =>
          LET availW == (container'.w - 2 * 20) * fitScale'.d
              availH == (container'.h - 2 * 20) * fitScale'.d
              usedW  == pageSize'.w * fitScale'.n
              usedH  == pageSize'.h * fitScale'.n
          IN  /\ fitScale'.d > 0
              /\ usedW <= availW
              /\ usedH <= availH
              /\ usedW = availW \/ usedH = availH
              /\ scale' = fitScale'
              /\ 2 * panOffsetRef'.x.n * fitScale'.d
                    = (container'.w * fitScale'.d - usedW) * panOffsetRef'.x.d
              /\ 2 * panOffsetRef'.y.n * fitScale'.d
                    = (container'.h * fitScale'.d - usedH) * panOffsetRef'.y.d
              /\ panOffsetRef'.x.d > 0
              /\ panOffsetRef'.y.d > 0]_vars

\* A 200 x 100 page was fitted into the 640 x 640 container: the width binds
\* (600 / 200 = 3), the height has room to spare, the content is centred.
C6_Witness ==
    /\ container = [w |-> 640, h |-> 640]
    /\ pageSize = [w |-> 200, h |-> 100]
    /\ fitScale = Num(3)
    /\ scale = fitScale
    /\ panOffsetRef = [x |-> Num(20), y |-> Num(170)]

\* C7: scale > 0 in every reachable state.
C7_ScalePositive == RLess(Num(0), scale)

\* The viewport state of the specification.
ViewportState == <<scale, fitScale, panOffsetRef>>

\* Reset, applied in this state, leaves the viewport state as it is.
ResetChangesNothing == ~ENABLED (ResetView /\ ViewportState' # ViewportState)

\* C8: after one reset, a second reset in a row leaves scale, fitScale and
\* panOffset as the first one left them.
C8_ResetIdempotent == [][ResetView => ResetChangesNothing']_vars

\* The view was reset after a 200 x 100 page was fitted into the 640 x 640
\* container: the scale is the fit scale 3 and the offset is {0,0}, not the
\* centred {20,170}.
C8_Witness ==
    /\ isOpen
    /\ ~isLoading
    /\ fitScale = Num(3)
    /\ scale = fitScale
    /\ panOffsetRef = Origin
    /\ ENABLED ResetView

\* C9: loading goes to ready on a page render and to error on a load failure,
\* and by nothing else; once in error, the state stays error under every
\* event except closing the viewer.
C9_LoadStateTransitions ==
    [][/\ (LoadState = "loading" /\ PageLoadSuccess) => LoadState' = "ready"
       /\ (LoadState = "loading" /\ DocumentLoadError) => LoadState' = "error"
       /\ (LoadState = "loading" /\ LoadState' = "ready") => PageLoadSuccess
       /\ (LoadState = "loading" /\ LoadState' = "error") => DocumentLoadError
       /\ (LoadState = "error" /\ LoadState' # "error") => Close]_vars

\* A load failed while the viewer was open; the error branch is rendered.
C9_Witness ==
    /\ isOpen
    /\ mounted
    /\ LoadState = "error"
    /\ numPages >= 1

\* C10: every request is answered exactly once: 400 in plain text and no
\* fetch without a url; 500 with the JSON error body when the fetch (the
\* request or the reading of its body) throws or the status is not 2xx; 200
\* as application/pdf otherwise, whatever the upstream content type.
C10_RelayOutcomes ==
    /\ Len(served) = IF relayPc = "idle" THEN requests ELSE requests - 1
    /\ \A i \in 1..Len(served) :
          LET e == served[i]
              r == e.response
          IN  /\ e.request = i
              /\ IF e.url = NULL \/ e.url = ""
                 THEN /\ r.status = 400
                      /\ r.contentType = "text/plain;charset=UTF-8"
                      /\ r.body = "Missing URL parameter"
                      /\ ~e.fetched
                 ELSE IF \/ e.upstream.threw
                         \/ e.upstream.status < 200
                         \/ e.upstream.status > 299
                         \/ e.bodyRead = "failed"
                 THEN /\ r.status = 500
                      /\ r.contentType = "application/json"
                      /\ r.body = "{\"error\":\"Failed to fetch PDF\"}"
                 ELSE /\ r.status = 200
                      /\ r.contentType = "application/pdf"
                      /\ e.fetched

\* Two requests were answered: one whose upstream said 404, with 500, and one
\* whose upstream sent text/html with status 200, with 200.
C10_Witness ==
    /\ relayPc = "idle"
    /\ Len(served) = 2
    /\ served[1].upstream.status = 404
    /\ served[1].response.status = 500
    /\ served[2].upstream.status = 200
    /\ served[2].upstream.contentType = "text/html"
    /\ served[2].response.status = 200

\* C11: whenever the viewer is panning, a pointer-up and a pointer-leave each
\* end the pan session (so that a later pointer-move leaves the pan offset
\* alone).
C11_PanSessionEnds ==
    [][(isPanning /\ (MouseUp \/ MouseLeave)) => ~isPanning']_vars

\* C12: a primary-button pointer-down records the start pointer and the pan
\* offset of that moment as the baseline and enters Panning; no zoom, reset
\* or fit during the session touches that record; every pointer-move while
\* panning sets panOffset = baseline + (pointer - start) and leaves the scale
\* alone; a pointer-move while idle changes nothing.
C12_DragToPan ==
    [][/\ \A p \in Points :
             (MouseDown /\ gestures' # gestures /\ startPanRef' = p) =>
                /\ isPanning'
                /\ lastTransformRef' = panOffsetRef
       /\ (isPanning /\ (ZoomStep \/ ResetView \/ FitStep)) =>
             UNCHANGED <<startPanRef, lastTransformRef>>
       /\ (isPanning /\ MouseMove) =>
             /\ \E p \in Points :
                   /\ panOffsetRef'.x
                         = RAdd(lastTransformRef.x, Num(p.x - startPanRef.x))
                   /\ panOffsetRef'.y
                         = RAdd(lastTransformRef.y, Num(p.y - startPanRef.y))
             /\ scale' = scale
       /\ (~isPanning /\ MouseMove) => UNCHANGED viewerVars]_vars

\* The state the reset effect leaves behind.
ResetState ==
    /\ numPages = 0
    /\ LoadState = "loading"
    /\ scale = Num(1)
    /\ fitScale = Num(1)
    /\ panOffsetRef = Origin

\* C13: once the viewer was closed during a load, a document-load, page-render
\* or load-error callback that arrives afterwards leaves the reset state as
\* it is.
C13_LateCallbackIsNoOp ==
    [][(/\ ~isOpen
        /\ ResetState
        /\ DocumentLoadSuccess \/ DocumentLoadError \/ PageLoadSuccess)
          => ResetState']_vars

\* C14: every fit recomputation, whether the first page render or a resize
\* of the ready viewer triggers it, leaves scale = fitScale and the content
\* centred in the container (2 * panOffset + content * scale = container),
\* whatever zoom or pan the user had applied before.
C14_FitResetsView ==
    [][FitStep =>
          /\ scale' = fitScale'
          /\ RAdd(RMul(panOffsetRef'.x, Num(2)), RMul(Num(pageSize'.w), scale'))
                = Num(container'.w)
          /\ RAdd(RMul(panOffsetRef'.y, Num(2)), RMul(Num(pageSize'.h), scale'))
                = Num(container'.h)]_vars

\* A fitted view (200 x 100 page in the 640 x 640 container) of a behaviour
\* in which the user zoomed (a gesture that was not a pointer-down) at a
\* scale from which no zoom step leads to 3: the zoom was discarded.
C14_Witness ==
    /\ isOpen
    /\ LoadState = "ready"
    /\ gestures = 1
    /\ startPanRef = NoPoint
    /\ fitScale = Num(3)
    /\ scale = fitScale
    /\ panOffsetRef = [x |-> Num(20), y |-> Num(170)]

\* C15: previous and next change nothing but the current page, and the page
\* render that completes in the ready viewer afterwards leaves scale, fitScale
\* and the pan offset alone, whatever the size of the new page.
C15_NavigationFrame ==
    [][/\ (PreviousPage \/ NextPage) =>
             UNCHANGED <<numPages, scale, fitScale, panOffsetRef, error,
                         isLoading, isOpen>>
       /\ (~isLoading /\ PageLoadSuccess) =>
             UNCHANGED <<scale, fitScale, panOffsetRef>>]_vars

\* Page 2 has rendered with a size (200 x 100) other than the one the view
\* was fitted to (100 x 100 in the 640 x 640 container: fit 6, offset 20).
C15_Witness ==
    /\ LoadState = "ready"
    /\ pageNumber = 2
    /\ container = [w |-> 640, h |-> 640]
    /\ pageSize = [w |-> 200 * BASE_SCALE, h |-> 100 * BASE_SCALE]
    /\ fitScale = Num(6)
    /\ scale = fitScale
    /\ panOffsetRef = [x |-> Num(20), y |-> Num(20)]

\* C16: the reset action sets scale to fitScale and the pan offset to {0,0},
\* which is not the centred offset of a fit, and leaves fitScale, the page
\* cursor and the load state as they are.
C16_ResetPostcondition ==
    [][ResetView =>
          /\ scale' = fitScale
          /\ panOffsetRef' = [x |-> Num(0), y |-> Num(0)]
          /\ UNCHANGED <<fitScale, pageNumber, numPages, isLoading, error>>]_vars

\* A reset view on page 2 of the ready viewer whose fit (100 x 100 page in the
\* 640 x 640 container) had centred the content at offset {20,20}.
C16_Witness ==
    /\ LoadState = "ready"
    /\ pageNumber = 2
    /\ container = [w |-> 640, h |-> 640]
    /\ pageSize = [w |-> 100 * BASE_SCALE, h |-> 100 * BASE_SCALE]
    /\ fitScale = Num(6)
    /\ scale = fitScale
    /\ panOffsetRef = Origin
    /\ lastTransformRef = Origin

\* The world point shown at the centre of the container for a pan offset and a
\* scale: the transform is translate(offset) scale(s) with origin 0 0.
CenterWorldPoint(offset, s) ==
    [x |-> RDiv(RSub(Frac(container.w, 2), offset.x), s),
     y |-> RDiv(RSub(Frac(container.h, 2), offset.y), s)]

\* C17 (adjustment): a button zoom adds (viewerSize / newScale - viewerSize /
\* oldScale) * 0.5 to the pan offset on each axis, viewerSize being the size
\* of the viewer element's bounding box.
C17_CenterAdjustment ==
    [][((ZoomIn \/ ZoomOut) /\ RefsPresent /\ RLess(Num(0), scale)
          /\ scale' # scale) =>
          LET viewerWidth  == RMul(Num(container.w), transformScale)
              viewerHeight == RMul(Num(container.h), transformScale)
          IN  /\ panOffsetRef'.x
                    = RAdd(panOffsetRef.x,
                           RMul(RSub(RDiv(viewerWidth, scale'),
                                     RDiv(viewerWidth, scale)), Frac(1, 2)))
              /\ panOffsetRef'.y
                    = RAdd(panOffsetRef.y,
                           RMul(RSub(RDiv(viewerHeight, scale'),
                                     RDiv(viewerHeight, scale)), Frac(1, 2)))]_vars

\* C17: a button zoom-in or zoom-out of a view with a positive scale keeps the
\* world point under the centre of the container under the centre of the
\* container.
C17_ButtonZoomAnchored ==
    [][((ZoomIn \/ ZoomOut) /\ RefsPresent /\ RLess(Num(0), scale)
          /\ scale' # scale) =>
          CenterWorldPoint(panOffsetRef', scale')
              = CenterWorldPoint(panOffsetRef, scale)]_vars

\* C18: a step that changes scale, fitScale or the pan offset is no wheel
\* event without a modifier key and no wheel event with the pointer outside
\* the container; when it is a wheel event, fitScale stays and the scale is
\* multiplied by 1.1 for a negative deltaY and divided by 1.1 otherwise,
\* unless the result is clamped to a bound.
C18_WheelGating ==
    [][ViewportState' # ViewportState =>
          \A p \in Points, deltaY \in DeltaYs :
             /\ ~WheelAt(p, FALSE, deltaY)
             /\ WheelAt(p, TRUE, deltaY) =>
                   /\ isFocused
                   /\ fitScale' = fitScale
                   /\ IF deltaY < 0
                      THEN \/ scale' = RMul(scale, Frac(11, 10))
                           \/ scale' = Num(MAX_SCALE)
                      ELSE \/ scale' = RDiv(scale, Frac(11, 10))
                           \/ scale' = RMul(wheelFitScale, MIN_SCALE_FACTOR)]_vars

\* One modifier-wheel tick with negative deltaY at client point {110,110} over
\* the fitted view (fit 3, offset {20,170}): scale 3.3, and the offset that
\* keeps the point under the cursor.
C18_Witness ==
    /\ isFocused
    /\ gestures = 1
    /\ fitScale = Num(3)
    /\ scale = Frac(33, 10)
    /\ panOffsetRef = [x |-> Num(12), y |-> Num(182)]

\* What one more run of the resize callback computes from the container and
\* the layout size of the page (clientWidth, clientHeight, which no transform
\* changes): the smaller of the two candidates, as a fraction num / den.
SecondFit ==
    LET availW == container.w - PADDING * 2
        availH == container.h - PADDING * 2
        pageW  == pageSize.w
        pageH  == pageSize.h
    IN  IF availW * pageH <= availH * pageW
        THEN [num |-> availW, den |-> pageW]
        ELSE [num |-> availH, den |-> pageH]

\* Another run of the resize callback, with the container and the content as
\* they are, changes nothing of the viewport state: when its guard passes it
\* sets scale and fitScale to SecondFit and the pan offset to
\* (container - page * SecondFit) / 2, which is what they are already.
ResizeAgainChangesNothing ==
    ObserverFits =>
       /\ fitScale.d > 0
       /\ fitScale.n * SecondFit.den = SecondFit.num * fitScale.d
       /\ scale = fitScale
       /\ panOffsetRef.x.d > 0
       /\ panOffsetRef.y.d > 0
       /\ 2 * panOffsetRef.x.n * SecondFit.den
             = (container.w * SecondFit.den - pageSize.w * SecondFit.num)
                  * panOffsetRef.x.d
       /\ 2 * panOffsetRef.y.n * SecondFit.den
             = (container.h * SecondFit.den - pageSize.h * SecondFit.num)
                  * panOffsetRef.y.d

\* C19: after the resize callback has run in the ready viewer, running it
\* again with the container and the content unchanged leaves scale, fitScale
\* and the pan offset as the first run left them.
C19_ResizeIdempotent ==
    [][(LoadState = "ready" /\ Resize) => ResizeAgainChangesNothing']_vars

\* A view refitted by the observer (200 x 100 page, 640 x 640 container) in a
\* behaviour in which the user had zoomed, which another run of the callback
\* leaves as it is.
C19_Witness ==
    /\ isOpen
    /\ ObserverFits
    /\ gestures = 1
    /\ startPanRef = NoPoint
    /\ wheelFitScale = Num(3)
    /\ fitScale = Num(3)
    /\ scale = fitScale
    /\ panOffsetRef = [x |-> Num(20), y |-> Num(170)]
    /\ ResizeAgainChangesNothing

\* C20: while the first page has not rendered, fitScale is 1.0 and a resize
\* of the container leaves scale, fitScale and the pan offset alone; the step
\* that first moves fitScale away from it is the page render completing, which
\* ends in the ready state.
C20_FitOrdering ==
    [][/\ LoadState' = "loading" => fitScale' = Num(1)
       /\ (LoadState = "loading" /\ Resize) => UNCHANGED ViewportState
       /\ (LoadState = "loading" /\ fitScale' # fitScale) =>
             (PageLoadSuccess /\ LoadState' = "ready")]_vars

\* The container of a closed, still mounted viewer that is loading again was
\* resized to 30 x 30 with the observer of the last session in place (the
\* transform still shows the fit 6 of the 640 x 640 container): fitScale,
\* scale and the pan offset are those of the reset.
C20_Witness ==
    /\ mounted
    /\ LoadState = "loading"
    /\ observing
    /\ gestures = 0
    /\ container = [w |-> 30, h |-> 30]
    /\ transformScale = Num(6)
    /\ fitScale = Num(1)
    /\ scale = Num(1)
    /\ panOffsetRef = Origin

\* C21: the error message and the loading flag are never both set, and no
\* step that could run a fit in or into the error state (a load error, a
\* resize of the container while the error is shown) changes scale, fitScale
\* or the pan offset.
C21_LoadStateConsistent ==
    [][/\ ~(error # NULL /\ isLoading)
       /\ ~(error' # NULL /\ isLoading')
       /\ (DocumentLoadError \/ (LoadState = "error" /\ Resize)) =>
             UNCHANGED ViewportState]_vars

\* The error is shown with the observer of the ready viewer still attached,
\* and the container was resized to 30 x 30 since: the view is still the one
\* fitted to the 640 x 640 container (fit 6, offset {20,20}).
C21_Witness ==
    /\ LoadState = "error"
    /\ observing
    /\ container = [w |-> 30, h |-> 30]
    /\ fitScale = Num(6)
    /\ scale = fitScale
    /\ panOffsetRef = [x |-> Num(20), y |-> Num(20)]

====
